---- MODULE Spec2Model ----
(***************************************************************************)
(* Model of MackieHandler (speed-editor-to-mackie.py): the Speed Editor to *)
(* Mackie Control bridge.  Three kinds of threads run the handler:         *)
(*   - the polling thread (se.poll()), which calls key() and jog();        *)
(*   - the receive thread (receive_thread), which mirrors the DAW flags;   *)
(*   - one thread per threading.Timer, which runs zoom_repeat when the     *)
(*     timer fires.                                                        *)
(* Python switches threads between bytecodes, so every access to a field   *)
(* that another thread writes is a step of its own.                        *)
(***************************************************************************)
EXTENDS Integers, Sequences, FiniteSets, TLC

\* ------------------------------------------------------------ constants

MCU_JOG_CC == 60
MCU_STOP == 93
MCU_PLAY == 94
MCU_REC == 95
MCU_UP == 96
MCU_DOWN == 97
MCU_LEFT == 98
MCU_RIGHT == 99
MCU_ZOOM == 100
MCU_SCRUB == 101

\* The keys of SpeedEditorKey the handler tells apart, and two keys (CAM1,
\* CAM2) that have an LED and no other role.
SpeedEditorKey ==
    {"IN", "OUT", "TRIM_IN", "TRIM_OUT", "STOP_PLAY", "FULL_VIEW",
     "SHTL", "JOG", "SCRL", "CAM1", "CAM2"}

\* SpeedEditorLed: the LED bit of a key that has one.
SpeedEditorLed == [k \in {"CAM1", "CAM2"} |-> IF k = "CAM1" THEN 16384 ELSE 32768]

\* JOG: jog-mode key -> (jog LED, jog mode)
JOG == [k \in {"SHTL", "JOG", "SCRL"} |-> <<k, "RELATIVE_2">>]

JOG_SPEED_FACTOR == [k \in {"SHTL", "JOG", "SCRL"} |->
                        CASE k = "SHTL" -> 20
                          [] k = "JOG" -> 15
                          [] k = "SCRL" -> 1]

ZOOM_KEYS == <<"IN", "OUT", "TRIM_IN", "TRIM_OUT">>

\* a zoom_handle_keys with the directions of each pair the wrong way round
ZoomNote_swapped == <<MCU_LEFT, MCU_RIGHT, MCU_UP, MCU_DOWN>>

\* the note zoom_handle_keys sends for the i-th zoom key
ZoomNote == <<MCU_RIGHT, MCU_LEFT, MCU_DOWN, MCU_UP>>

\* -------------------------------------------------------------- bounds

\* key() calls in one run
MaxKeyCalls == 3
\* keys held at once in a snapshot
MaxHeld == 2
\* jog() calls between two changes of the jog mode
MaxJogCalls == 3
\* the count of ZOOM notes in one interval stops at this value
MaxZoomCount == 2

\* ----------------------------------------------------------- variables

VARIABLES
    keys,           \* self.keys
    leds,           \* self.leds
    play_state,     \* self.play_state
    zoom_mode,      \* self.zoom_mode
    scrub_mode,     \* self.scrub_mode
    jog_unsent,     \* self.jog_unsent
    jog_mode,       \* self.jog_mode
    zoom_timer_on,  \* self.zoom_timer_on
    dev,            \* the device registers written through self.se
    poll,           \* the polling thread: where it is in key() and its locals
    timers,         \* the timer threads: how many are in each state
    sent,           \* the MIDI messages the last step sent, in order
    nkeys,          \* key() calls so far
    jlog,           \* since the jog mode last changed: notches fed to jog(),
                    \* steps passed to send_midi_jog_cc, jog() calls
    zlog,           \* the current interval with a zoom key held: zoom_mode
                    \* when it began and the ZOOM notes sent in it
    led_toggles,    \* for each key with an LED: the parity of the number of
                    \* times its LED was toggled
    daw             \* the DAW at the other end of the MIDI ports: its scrub
                    \* state, the notes on their way to it and its feedback
                    \* on its way to receive_thread

vars == <<keys, leds, play_state, zoom_mode, scrub_mode, jog_unsent, jog_mode,
          zoom_timer_on, dev, poll, timers, sent, nkeys, jlog, zlog, led_toggles,
          daw>>

\* ------------------------------------------------------------- helpers

\* a toggle that sets the bit b and never clears it (|= for ^=)
BitXor_set(a, b) ==
    IF b = 0 THEN a
    ELSE IF (a \div b) % 2 = 1 THEN a ELSE a + b

RECURSIVE BitXor(_, _)
\* a ^ b on non-negative integers
BitXor(a, b) ==
    IF a = 0 THEN b
    ELSE IF b = 0 THEN a
    ELSE (((a % 2) + (b % 2)) % 2) + 2 * BitXor(a \div 2, b \div 2)

RECURSIVE BitOr(_, _)
\* a | b on non-negative integers
BitOr(a, b) ==
    IF a = 0 THEN b
    ELSE IF b = 0 THEN a
    ELSE (IF (a % 2) + (b % 2) > 0 THEN 1 ELSE 0) + 2 * BitOr(a \div 2, b \div 2)

\* abs(x)
Abs(x) == IF x < 0 THEN -x ELSE x

\* a getattr that finds no LED for any key
LedOf_missing(k) == 0

\* getattr(SpeedEditorLed, k.name, 0)
LedOf(k) == IF k \in DOMAIN SpeedEditorLed THEN SpeedEditorLed[k] ELSE 0

\* the state of a thread inside zoom_handle_keys: where it is (pc), which
\* zoom key it tests next (i) and its local zoom_pressed (zp)
ThreadStates == [pc : {"pending", "any", "dir", "chk", "arm"}, i : 0..4, zp : BOOLEAN]

\* a timer that was started and has not fired
Pending == [pc |-> "pending", i |-> 0, zp |-> FALSE]

\* entry of zoom_handle_keys: zoom_pressed = False
ZhkEntry == [pc |-> "any", i |-> 0, zp |-> FALSE]

NoTimers == [t \in ThreadStates |-> 0]

\* the polling thread outside key()
PollIdle ==
    [pc |-> "idle", arg |-> {}, released |-> {}, pressed |-> {}, todo |-> {},
     prev |-> {},
     rel_calls |-> [k \in SpeedEditorKey |-> 0],
     press_calls |-> [k \in SpeedEditorKey |-> 0],
     z |-> ZhkEntry]

\* the messages the DAW sends back
Messages == [type : {"note_on", "note_off"},
             note : {MCU_PLAY, MCU_ZOOM, MCU_SCRUB, MCU_REC},
             velocity : {0, 127}]

\* the DAW with scrub off and nothing on its way in either direction
DawIdle == [scrub |-> FALSE, notes |-> <<>>, feedback |-> <<>>]

\* ---------------------------------------------------------------- Init

\* a constructor that selects the mode of the scroll key
initial_jog_key_scrl == "SCRL"

\* the key __init__ passes to _set_jog_mode_for_key
initial_jog_key == "JOG"

\* the state __init__ leaves
Init ==
    /\ zoom_timer_on = FALSE
    /\ keys = {}
    /\ leds = 0
    /\ play_state = FALSE
    /\ zoom_mode = FALSE
    /\ scrub_mode = FALSE
    /\ jog_unsent = 0
    /\ jog_mode = initial_jog_key
    /\ dev = [leds |-> 0, jog_led |-> JOG[initial_jog_key][1],
              jog_mode |-> JOG[initial_jog_key][2]]
    /\ poll = PollIdle
    /\ timers = NoTimers
    /\ sent = <<>>
    /\ nkeys = 0
    /\ jlog = [fed |-> 0, emitted |-> 0, base |-> 0, n |-> 0]
    /\ zlog = [active |-> FALSE, flag0 |-> FALSE, n |-> 0]
    /\ led_toggles = [k \in DOMAIN SpeedEditorLed |-> 0]
    /\ daw = DawIdle

\* ------------------------------------------------------ pure operations

\* send_midi_note: the message it sends
send_midi_note(note) == <<[type |-> "note_on", note |-> note, velocity |-> 127]>>

\* a send_midi_jog_cc that clamps to 63 and sends one message
jog_cc_once(shift, abs_val_full) ==
    IF abs_val_full > 0
    THEN <<[type |-> "control_change", control |-> MCU_JOG_CC,
            value |-> BitOr(IF abs_val_full > 63 THEN 63 ELSE abs_val_full,
                            (IF shift < 0 THEN 1 ELSE 0) * 64)]>>
    ELSE <<>>

RECURSIVE jog_cc_loop(_, _)
\* the while loop of send_midi_jog_cc: the messages sent for what is left
jog_cc_loop(shift, abs_val_full) ==
    IF abs_val_full > 0
    THEN LET abs_val == IF abs_val_full > 63 THEN 63 ELSE abs_val_full
             sign == (IF shift < 0 THEN 1 ELSE 0) * 64
             val == BitOr(abs_val, sign)
         IN  <<[type |-> "control_change", control |-> MCU_JOG_CC, value |-> val]>>
                 \o jog_cc_loop(shift, abs_val_full - abs_val)
    ELSE <<>>

\* send_midi_jog_cc(shift): the messages it sends, in order
send_midi_jog_cc(shift) == jog_cc_loop(shift, Abs(shift))

\* a _set_jog_mode_for_key that starts the new mode with an empty accumulator
set_jog_mode_for_key_reset(key) ==
    IF key \notin DOMAIN JOG
    THEN [jog_mode |-> jog_mode, jog_led |-> dev.jog_led, dev_mode |-> dev.jog_mode,
          jog_unsent |-> jog_unsent, out |-> <<>>]
    ELSE [jog_mode |-> key, jog_led |-> JOG[key][1], dev_mode |-> JOG[key][2],
          jog_unsent |-> 0,
          out |-> IF (key = "SHTL") = (~scrub_mode)
                  THEN send_midi_note(MCU_SCRUB) ELSE <<>>]

\* a _set_jog_mode_for_key that falls back to the JOG key for a key that
\* is not in JOG
set_jog_mode_for_key_default(key) ==
    LET k == IF key \in DOMAIN JOG THEN key ELSE "JOG"
    IN  [jog_mode |-> k, jog_led |-> JOG[k][1], dev_mode |-> JOG[k][2],
         jog_unsent |-> jog_unsent,
         out |-> IF (k = "SHTL") = (~scrub_mode)
                 THEN send_midi_note(MCU_SCRUB) ELSE <<>>]

\* a _set_jog_mode_for_key that switches scrub on for SHTL and never off
set_jog_mode_for_key_scrub_on(key) ==
    IF key \notin DOMAIN JOG
    THEN [jog_mode |-> jog_mode, jog_led |-> dev.jog_led, dev_mode |-> dev.jog_mode,
          jog_unsent |-> jog_unsent, out |-> <<>>]
    ELSE [jog_mode |-> key, jog_led |-> JOG[key][1], dev_mode |-> JOG[key][2],
          jog_unsent |-> jog_unsent,
          out |-> IF key = "SHTL" /\ ~scrub_mode
                  THEN send_midi_note(MCU_SCRUB) ELSE <<>>]

\* _set_jog_mode_for_key(key): the fields and registers after it, and the
\* notes it sends
set_jog_mode_for_key(key) ==
    IF key \notin DOMAIN JOG
    THEN [jog_mode |-> jog_mode, jog_led |-> dev.jog_led, dev_mode |-> dev.jog_mode,
          jog_unsent |-> jog_unsent, out |-> <<>>]
    ELSE [jog_mode |-> key, jog_led |-> JOG[key][1], dev_mode |-> JOG[key][2],
          jog_unsent |-> jog_unsent,
          out |-> IF (key = "SHTL") = (~scrub_mode)
                  THEN send_midi_note(MCU_SCRUB) ELSE <<>>]

\* set_zoom_mode: the notes it sends
set_zoom_mode == IF ~zoom_mode THEN send_midi_note(MCU_ZOOM) ELSE <<>>

\* the test of set_zoom_timer: no timer is on
set_zoom_timer_test == ~zoom_timer_on

\* any(k in self.keys for k in self.ZOOM_KEYS)
any_zoom_key(held) == \E i \in DOMAIN ZOOM_KEYS : ZOOM_KEYS[i] \in held

\* the i-th key test of zoom_handle_keys: the note it sends
dir_note(i) == IF ZOOM_KEYS[i] \in keys THEN send_midi_note(ZoomNote[i]) ELSE <<>>

\* One step of zoom_handle_keys by a thread in state t: the thread's next
\* state, the notes the step sends and whether it starts a timer.
\*   any: the any() test and set_zoom_mode
\*   dir: the test of the i-th zoom key and its note
\*   chk: "if zoom_pressed" and the test of set_zoom_timer
\*   arm: zoom_timer_on = True and the start of the timer
zoom_handle_keys(t) ==
    CASE t.pc = "any" ->
            LET zoom_pressed == any_zoom_key(keys)
            IN  [pc |-> "dir", i |-> 1, zp |-> zoom_pressed,
                 out |-> IF zoom_pressed THEN set_zoom_mode ELSE <<>>, arm |-> FALSE]
      [] t.pc = "dir" ->
            [pc |-> IF t.i < Len(ZOOM_KEYS) THEN "dir" ELSE "chk",
             i |-> IF t.i < Len(ZOOM_KEYS) THEN t.i + 1 ELSE 0,
             zp |-> t.zp,
             out |-> dir_note(t.i),
             arm |-> FALSE]
      [] t.pc = "chk" ->
            [pc |-> IF t.zp /\ set_zoom_timer_test THEN "arm" ELSE "done",
             i |-> 0, zp |-> t.zp, out |-> <<>>, arm |-> FALSE]
      [] t.pc = "arm" ->
            [pc |-> "done", i |-> 0, zp |-> t.zp, out |-> <<>>, arm |-> TRUE]

\* the any() test and the four key tests of zoom_handle_keys taken at once:
\* the state before "if zoom_pressed" and the notes sent, in order
zoom_handle_keys_tests ==
    LET zoom_pressed == any_zoom_key(keys)
    IN  [pc |-> "chk", i |-> 0, zp |-> zoom_pressed,
         out |-> (IF zoom_pressed THEN set_zoom_mode ELSE <<>>)
                    \o dir_note(1) \o dir_note(2) \o dir_note(3) \o dir_note(4),
         arm |-> FALSE]

\* ------------------------------------------------------------- logging

Add(bag, t) == [bag EXCEPT ![t] = @ + 1]
Del(bag, t) == [bag EXCEPT ![t] = @ - 1]

IsZoomNote(m) == m.type = "note_on" /\ m.note = MCU_ZOOM

\* zlog after a step that sent out
ZlogSent(out) ==
    IF \E j \in DOMAIN out : IsZoomNote(out[j])
    THEN [zlog EXCEPT !.n = IF @ < MaxZoomCount THEN @ + 1 ELSE @]
    ELSE zlog

\* zlog after key() replaced the held keys by keys_set
ZlogKeys(keys_set) ==
    IF ~any_zoom_key(keys) /\ any_zoom_key(keys_set)
    THEN [active |-> TRUE, flag0 |-> zoom_mode, n |-> 0]
    ELSE IF any_zoom_key(keys) /\ ~any_zoom_key(keys_set)
    THEN [zlog EXCEPT !.active = FALSE]
    ELSE zlog

\* ------------------------------------------------------ polling thread

\* released = self.keys - keys_set
released_keys(keys_set) == keys \ keys_set

\* a key() that takes every held key to be newly pressed
pressed_keys_all(keys_set) == keys_set

\* pressed = keys_set - self.keys
pressed_keys(keys_set) == keys_set \ keys

\* a key_pressed that reads the play state the wrong way round
stop_play_note_swapped == IF play_state THEN MCU_PLAY ELSE MCU_STOP

\* the note key_pressed sends for STOP_PLAY
stop_play_note == IF play_state THEN MCU_STOP ELSE MCU_PLAY

\* where key() goes after a key_pressed call: to the next pressed key, or
\* to its end
AfterPress(todo) == IF todo = {} THEN "ret" ELSE "loop"

\* key(keys), up to the loop over the pressed keys
KeyCall(snapshot) ==
    /\ poll.pc = "idle"
    /\ LET keys_set == snapshot
           released == released_keys(keys_set)
           pressed == pressed_keys(keys_set)
       IN  /\ keys' = keys_set
           /\ poll' = [PollIdle EXCEPT
                         !.pc = AfterPress(pressed),
                         !.arg = snapshot,
                         !.released = released,
                         !.pressed = pressed,
                         !.todo = pressed,
                         !.prev = keys,
                         !.rel_calls = [k \in SpeedEditorKey |->
                                           IF k \in released THEN 1 ELSE 0]]
           /\ zlog' = ZlogKeys(keys_set)
    /\ nkeys < MaxKeyCalls
    /\ nkeys' = nkeys + 1
    /\ sent' = <<>>
    /\ UNCHANGED <<led_toggles, daw, leds, play_state, zoom_mode, scrub_mode, jog_unsent, jog_mode,
                   zoom_timer_on, dev, timers, jlog>>

\* key_pressed(k), up to the call of zoom_handle_keys: what it does to the
\* handler and the device
key_pressed_body(k) ==
    /\ poll.pc = "loop"
    /\ k \in poll.todo
    /\ LET j == set_jog_mode_for_key(k)
           newleds == BitXor(leds, LedOf(k))
           transport == IF k = "STOP_PLAY"
                        THEN send_midi_note(stop_play_note)
                        ELSE <<>>
           rec == IF k = "FULL_VIEW" THEN send_midi_note(MCU_REC) ELSE <<>>
           is_zoom == \E i \in DOMAIN ZOOM_KEYS : ZOOM_KEYS[i] = k
       IN  /\ jog_mode' = j.jog_mode
           /\ jog_unsent' = j.jog_unsent
           /\ leds' = newleds
           /\ dev' = [leds |-> newleds, jog_led |-> j.jog_led, jog_mode |-> j.dev_mode]
           /\ sent' = j.out \o transport \o rec
           /\ poll' = [poll EXCEPT
                         !.todo = @ \ {k},
                         !.press_calls[k] = @ + 1,
                         !.pc = IF is_zoom THEN "zoom" ELSE AfterPress(poll.todo \ {k}),
                         !.z = ZhkEntry]
           /\ jlog' = IF j.jog_mode # jog_mode
                      THEN [fed |-> 0, emitted |-> 0, base |-> j.jog_unsent, n |-> 0]
                      ELSE jlog
           /\ led_toggles' = IF k \in DOMAIN SpeedEditorLed
                             THEN [led_toggles EXCEPT ![k] = (@ + 1) % 2]
                             ELSE led_toggles
    /\ UNCHANGED <<keys, play_state, zoom_mode, scrub_mode, zoom_timer_on, timers,
                   nkeys, zlog>>

\* key_pressed(k) with the notes it sends still on their way to the DAW
key_pressed(k) == key_pressed_body(k) /\ UNCHANGED daw

\* one step of the zoom_handle_keys call of key_pressed.  Only this thread
\* writes self.keys, so its five tests of self.keys read the set key() stored
\* and are one step; the tests of zoom_timer_on, which the timer threads
\* write, and the start of the timer are steps of their own.
PollZoom ==
    /\ poll.pc = "zoom"
    /\ LET r == IF poll.z.pc = "any"
                THEN zoom_handle_keys_tests
                ELSE zoom_handle_keys(poll.z)
       IN  /\ sent' = r.out
           /\ zlog' = ZlogSent(r.out)
           /\ zoom_timer_on' = IF r.arm THEN TRUE ELSE zoom_timer_on
           /\ timers' = IF r.arm THEN Add(timers, Pending) ELSE timers
           /\ poll' = IF r.pc = "done"
                      THEN [poll EXCEPT !.pc = AfterPress(poll.todo), !.z = ZhkEntry]
                      ELSE [poll EXCEPT !.z = [pc |-> r.pc, i |-> r.i, zp |-> r.zp]]
    /\ UNCHANGED <<led_toggles, daw, keys, leds, play_state, zoom_mode, scrub_mode, jog_unsent,
                   jog_mode, dev, nkeys, jlog>>

\* key() returns
KeyReturn ==
    /\ poll.pc = "ret"
    /\ poll' = PollIdle
    /\ sent' = <<>>
    /\ UNCHANGED <<led_toggles, daw, keys, leds, play_state, zoom_mode, scrub_mode, jog_unsent,
                   jog_mode, zoom_timer_on, dev, timers, nkeys, jlog, zlog>>

\* a jog() that uses the speed factor of SHTL in every mode
speed_factor_fixed(mode) == JOG_SPEED_FACTOR["SHTL"]

\* speed_factor = self.JOG_SPEED_FACTOR[self.jog_mode]
speed_factor_of(mode) == JOG_SPEED_FACTOR[mode]

\* a jog() that takes the steps, not the notches they stand for, off the
\* accumulator
jog_remainder_steps(unsent, value_to_send, speed_factor) == unsent - value_to_send

\* self.jog_unsent -= value_to_send * speed_factor
jog_remainder(unsent, value_to_send, speed_factor) == unsent - value_to_send * speed_factor

\* a division that rounds towards zero
jog_quotient_trunc(unsent, speed_factor) ==
    IF unsent >= 0 THEN unsent \div speed_factor ELSE -((-unsent) \div speed_factor)

\* value_to_send = self.jog_unsent // speed_factor: the floor of the quotient
jog_quotient(unsent, speed_factor) == unsent \div speed_factor

\* jog(mode, value)
jog(value) ==
    /\ poll.pc = "idle"
    /\ jlog.n < MaxJogCalls
    /\ LET notches == value \div 360
           unsent == jog_unsent + notches
           speed_factor == speed_factor_of(jog_mode)
           value_to_send == jog_quotient(unsent, speed_factor)
       IN  /\ IF value_to_send = 0
              THEN /\ jog_unsent' = unsent
                   /\ sent' = <<>>
              ELSE /\ jog_unsent' = jog_remainder(unsent, value_to_send, speed_factor)
                   /\ sent' = send_midi_jog_cc(value_to_send)
           /\ jlog' = [jlog EXCEPT !.fed = @ + notches,
                                   !.emitted = @ + value_to_send,
                                   !.n = @ + 1]
    /\ UNCHANGED <<led_toggles, daw, keys, leds, play_state, zoom_mode, scrub_mode, jog_mode,
                   zoom_timer_on, dev, poll, timers, nkeys, zlog>>

\* ------------------------------------------------------ receive thread

\* a receive_thread that does not look at the type of the message
receive_thread_any_type(msg) ==
    /\ play_state' = IF msg.note = MCU_PLAY THEN msg.velocity > 0 ELSE play_state
    /\ zoom_mode' = IF msg.note = MCU_ZOOM THEN msg.velocity > 0 ELSE zoom_mode
    /\ scrub_mode' = IF msg.note = MCU_SCRUB THEN msg.velocity > 0 ELSE scrub_mode
    /\ sent' = <<>>
    /\ UNCHANGED <<keys, leds, jog_unsent, jog_mode, zoom_timer_on, dev, poll,
                   timers, nkeys, jlog, zlog, led_toggles>>

\* one turn of the loop of receive_thread, for the message msg: what it
\* does to the handler
receive_thread_body(msg) ==
    /\ play_state' = IF msg.type = "note_on" /\ msg.note = MCU_PLAY
                     THEN msg.velocity > 0 ELSE play_state
    /\ zoom_mode' = IF msg.type = "note_on" /\ msg.note = MCU_ZOOM
                    THEN msg.velocity > 0 ELSE zoom_mode
    /\ scrub_mode' = IF msg.type = "note_on" /\ msg.note = MCU_SCRUB
                     THEN msg.velocity > 0 ELSE scrub_mode
    /\ sent' = <<>>
    /\ UNCHANGED <<keys, leds, jog_unsent, jog_mode, zoom_timer_on, dev, poll,
                   timers, nkeys, jlog, zlog, led_toggles>>

\* one turn of the loop of receive_thread, for a message msg that did not
\* come from the modelled DAW
receive_thread(msg) == receive_thread_body(msg) /\ UNCHANGED daw

\* -------------------------------------------------------- timer threads

\* a zoom_repeat that leaves zoom_timer_on set
zoom_repeat_no_clear ==
    /\ timers[Pending] > 0
    /\ timers' = Add(Del(timers, Pending), ZhkEntry)
    /\ sent' = <<>>
    /\ UNCHANGED <<led_toggles, daw, keys, leds, play_state, zoom_mode, scrub_mode, jog_unsent,
                   jog_mode, dev, poll, nkeys, jlog, zlog, zoom_timer_on>>

\* a timer fires: zoom_repeat, up to the call of zoom_handle_keys
zoom_repeat ==
    /\ timers[Pending] > 0
    /\ zoom_timer_on' = FALSE
    /\ timers' = Add(Del(timers, Pending), ZhkEntry)
    /\ sent' = <<>>
    /\ UNCHANGED <<led_toggles, daw, keys, leds, play_state, zoom_mode, scrub_mode, jog_unsent,
                   jog_mode, dev, poll, nkeys, jlog, zlog>>

\* one step of the zoom_handle_keys call of zoom_repeat, by a timer thread
\* in state t
TimerZoom(t) ==
    /\ t.pc # "pending"
    /\ timers[t] > 0
    /\ LET r == zoom_handle_keys(t)
           rest == Del(timers, t)
       IN  /\ sent' = r.out
           /\ zlog' = ZlogSent(r.out)
           /\ zoom_timer_on' = IF r.arm THEN TRUE ELSE zoom_timer_on
           /\ timers' = IF r.pc = "done"
                        THEN (IF r.arm THEN Add(rest, Pending) ELSE rest)
                        ELSE Add(rest, [pc |-> r.pc, i |-> r.i, zp |-> r.zp])
    /\ UNCHANGED <<led_toggles, daw, keys, leds, play_state, zoom_mode, scrub_mode, jog_unsent,
                   jog_mode, dev, poll, nkeys, jlog>>

\* ------------------------------------------------------ specifications

ZoomKeySet == {ZOOM_KEYS[i] : i \in DOMAIN ZOOM_KEYS}

\* The zoom scheduler: snapshots of two zoom keys, the DAW's zoom feedback,
\* and the timers.
ZoomSnapshots == {s \in SUBSET {"IN", "OUT"} : Cardinality(s) <= MaxHeld}
ZoomMessages == {m \in Messages : m.type = "note_on" /\ m.note = MCU_ZOOM}

NextZoom ==
    \/ \E s \in ZoomSnapshots : KeyCall(s)
    \/ \E k \in SpeedEditorKey : key_pressed(k)
    \/ PollZoom
    \/ KeyReturn
    \/ \E msg \in ZoomMessages : receive_thread(msg)
    \/ zoom_repeat
    \/ \E t \in ThreadStates : TimerZoom(t)

SpecZoom == Init /\ [][NextZoom]_vars

\* The directions: snapshots of each zoom key alone and of two pairs, and
\* the timers; the DAW sends nothing.
DirSnapshots ==
    {{}} \cup {{ZOOM_KEYS[i]} : i \in DOMAIN ZOOM_KEYS}
         \cup {{"IN", "TRIM_OUT"}, {"OUT", "TRIM_IN"}}

NextDir ==
    \/ \E s \in DirSnapshots : KeyCall(s)
    \/ \E k \in SpeedEditorKey : key_pressed(k)
    \/ PollZoom
    \/ KeyReturn
    \/ zoom_repeat
    \/ \E t \in ThreadStates : TimerZoom(t)

SpecDir == Init /\ [][NextDir]_vars

\* The keys that start no timer, with one of the keys that have an LED:
\* every snapshot of at most MaxHeld of them, and every message of the DAW.
KeySnapshots ==
    {s \in SUBSET (SpeedEditorKey \ (ZoomKeySet \cup {"CAM2"})) : Cardinality(s) <= MaxHeld}

NextKeys ==
    \/ \E s \in KeySnapshots : KeyCall(s)
    \/ \E k \in SpeedEditorKey : key_pressed(k)
    \/ KeyReturn
    \/ \E msg \in Messages : receive_thread(msg)

SpecKeys == Init /\ [][NextKeys]_vars

\* The LEDs: every snapshot of at most MaxHeld of the two keys that have an
\* LED and one that has none.
LedSnapshots == {s \in SUBSET {"CAM1", "CAM2", "STOP_PLAY"} : Cardinality(s) <= MaxHeld}

NextLeds ==
    \/ \E s \in LedSnapshots : KeyCall(s)
    \/ \E k \in SpeedEditorKey : key_pressed(k)
    \/ KeyReturn

SpecLeds == Init /\ [][NextLeds]_vars

\* The mirrored flags: every message of the DAW, and the keys whose
\* key_pressed reads a flag.
MirrorSnapshots == {{}, {"STOP_PLAY"}, {"SHTL"}, {"STOP_PLAY", "SHTL"}}

NextMirror ==
    \/ \E s \in MirrorSnapshots : KeyCall(s)
    \/ \E k \in SpeedEditorKey : key_pressed(k)
    \/ KeyReturn
    \/ \E msg \in Messages : receive_thread(msg)

SpecMirror == Init /\ [][NextMirror]_vars

\* The jog wheel: deltas of both signs, below and above one step of each
\* mode and above the 63 of one message; the jog-mode keys one at a time;
\* the DAW's scrub feedback.
JogDeltas == {360, -360, 7200, -7200, 46800, -46800}
JogSnapshots == {{}} \cup {{k} : k \in DOMAIN JOG}
JogMessages == {m \in Messages : m.type = "note_on" /\ m.note = MCU_SCRUB}

NextJog ==
    \/ \E s \in JogSnapshots : KeyCall(s)
    \/ \E k \in SpeedEditorKey : key_pressed(k)
    \/ KeyReturn
    \/ \E v \in JogDeltas : jog(v)
    \/ \E msg \in JogMessages : receive_thread(msg)

SpecJog == Init /\ [][NextJog]_vars

\* The bridge with a DAW that flips its scrub state on every SCRUB note it
\* gets and reports each new state back as a SCRUB note_on: the jog-mode
\* keys one at a time, the notes on their way to the DAW and its feedback
\* on its way to receive_thread.
IsScrubNote(m) == m.type = "note_on" /\ m.note = MCU_SCRUB

\* the DAW's ports after the handler sent msgs
DawHear(msgs) == [daw EXCEPT !.notes = @ \o SelectSeq(msgs, IsScrubNote)]

\* key_pressed(k), its notes sent to the DAW
ScrubPress(k) == key_pressed_body(k) /\ daw' = DawHear(sent')

\* the DAW takes the next SCRUB note, flips its scrub state and reports it
DawProcess ==
    /\ daw.notes # <<>>
    /\ daw' = [scrub |-> ~daw.scrub,
               notes |-> Tail(daw.notes),
               feedback |-> Append(daw.feedback,
                                   [type |-> "note_on", note |-> MCU_SCRUB,
                                    velocity |-> IF ~daw.scrub THEN 127 ELSE 0])]
    /\ sent' = <<>>
    /\ UNCHANGED <<keys, leds, play_state, zoom_mode, scrub_mode, jog_unsent,
                   jog_mode, zoom_timer_on, dev, poll, timers, nkeys, jlog, zlog,
                   led_toggles>>

\* receive_thread gets the next message of the DAW
DawDeliver ==
    /\ daw.feedback # <<>>
    /\ receive_thread_body(Head(daw.feedback))
    /\ daw' = [daw EXCEPT !.feedback = Tail(@)]

NextScrub ==
    \/ \E s \in JogSnapshots : KeyCall(s)
    \/ \E k \in SpeedEditorKey : ScrubPress(k)
    \/ KeyReturn
    \/ DawProcess
    \/ DawDeliver

SpecScrub == Init /\ [][NextScrub]_vars

\* The whole bridge on a few inputs.
Snapshots == {{}, {"IN"}, {"SHTL"}, {"STOP_PLAY"}}
WheelDeltas == {360, -5400}
Feedback == {m \in Messages : m.type = "note_on" /\ m.velocity > 0}

Next ==
    \/ \E s \in Snapshots : KeyCall(s)
    \/ \E k \in SpeedEditorKey : key_pressed(k)
    \/ PollZoom
    \/ KeyReturn
    \/ \E v \in WheelDeltas : jog(v)
    \/ \E msg \in Feedback : receive_thread(msg)
    \/ zoom_repeat
    \/ \E t \in ThreadStates : TimerZoom(t)

Spec == Init /\ [][Next]_vars

\* ---------------------------------------------------------------- claims

\* the timers that were started and have not fired
Outstanding == timers[Pending]

\* C1: at most one zoom auto-repeat timer is outstanding at any instant:
\* the number of started-but-not-yet-fired timers is at most 1 in every
\* reachable state.
C1_AtMostOneTimer == Outstanding <= 1

\* C2: the ZOOM note is sent once per rising edge of "a zoom key is held",
\* not once per key: in one maximal interval with a zoom key held that
\* began with zoom_mode false, no second ZOOM note is sent, whatever further
\* zoom keys are pressed, whatever timers fire and whenever the DAW's zoom
\* feedback arrives.
C2_ZoomOncePerEdge == zlog.active /\ ~zlog.flag0 => zlog.n <= 1

\* C3: at the end of the i-th key() call, key_released was called exactly
\* once for each key of S(i-1) \ S_i and for no other key, key_pressed
\* exactly once for each key of S_i \ S(i-1) and for no other key, the two
\* sets are disjoint, and self.keys is S_i; during the call no key has had
\* more than one callback.
C3_EdgeSets ==
    /\ poll.pc = "ret" =>
          /\ \A k \in SpeedEditorKey :
                /\ poll.rel_calls[k] = (IF k \in poll.prev \ poll.arg THEN 1 ELSE 0)
                /\ poll.press_calls[k] = (IF k \in poll.arg \ poll.prev THEN 1 ELSE 0)
          /\ poll.released \cap poll.pressed = {}
          /\ keys = poll.arg
          /\ (poll.arg = poll.prev =>
                \A k \in SpeedEditorKey : poll.rel_calls[k] + poll.press_calls[k] = 0)
    /\ \A k \in SpeedEditorKey : poll.rel_calls[k] + poll.press_calls[k] <= 1

\* C3's case: a key() call that has released one key and pressed another
C3_Witness ==
    /\ poll.pc = "ret"
    /\ poll.prev \ poll.arg # {}
    /\ poll.arg \ poll.prev # {}
    /\ poll.arg \cap poll.prev # {}

\* the magnitude (bits 0-5) and the sign bit (bit 6) of a value byte
Magnitude(value) == value % 64
SignBit(value) == (value \div 64) % 2

RECURSIVE SumMagnitudes(_)
SumMagnitudes(msgs) ==
    IF msgs = <<>> THEN 0 ELSE Magnitude(Head(msgs).value) + SumMagnitudes(Tail(msgs))

\* C4: under a fixed jog mode with speed factor F that began with the
\* accumulator at 0, after any sequence of jog() calls
\* (sum of the steps passed to send_midi_jog_cc) * F + jog_unsent
\* equals the sum of the notches (raw delta / 360) fed in.
C4_Conservation ==
    jlog.base = 0 =>
        jlog.emitted * JOG_SPEED_FACTOR[jog_mode] + jog_unsent = jlog.fed

\* C4's case: deltas of both signs were fed, steps were sent and a
\* remainder is left
C4_Witness ==
    /\ jlog.base = 0
    /\ jlog.n >= 2
    /\ jlog.emitted < 0
    /\ jlog.fed < 0
    /\ jog_unsent > 0

\* C5: after any jog() call, whatever jog() calls and jog-mode key presses
\* came before, |jog_unsent| is below the speed factor of the active mode.
C5_RemainderBound ==
    [][(\E v \in JogDeltas : jog(v)) =>
          Abs(jog_unsent') < JOG_SPEED_FACTOR[jog_mode']]_vars

\* C5's case: a jog() call after a mode switch that left a remainder above
\* the new mode's speed factor
C5_Witness ==
    /\ jlog.base >= JOG_SPEED_FACTOR[jog_mode]
    /\ jlog.n = 1

\* C6: the step of key() that handles the press of a jog-mode key sets the
\* active jog mode to that key, and no step of key() changes jog_unsent.
C6_ModeSwitchKeepsRemainder ==
    [][/\ poll' # poll => jog_unsent' = jog_unsent
       /\ \A k \in DOMAIN JOG : key_pressed(k) => jog_mode' = k]_vars

\* C6's case: the mode was switched with a remainder left, and the first
\* jog() call after the switch has used it
C6_Witness ==
    /\ jlog.base # 0
    /\ jlog.n = 1
    /\ jlog.fed + jlog.base = jlog.emitted * JOG_SPEED_FACTOR[jog_mode] + jog_unsent
    /\ jlog.emitted # 0
    /\ jlog.fed \div JOG_SPEED_FACTOR[jog_mode] # jlog.emitted

\* the messages send_midi_jog_cc must send for the step q
ClampSplit(q, msgs) ==
    /\ Len(msgs) = (Abs(q) + 62) \div 63
    /\ \A j \in DOMAIN msgs :
          /\ msgs[j].type = "control_change"
          /\ msgs[j].control = MCU_JOG_CC
          /\ msgs[j].value \in 0..127
          /\ Magnitude(msgs[j].value) \in 1..63
          /\ j < Len(msgs) => Magnitude(msgs[j].value) = 63
          /\ SignBit(msgs[j].value) = (IF q < 0 THEN 1 ELSE 0)
    /\ SumMagnitudes(msgs) = Abs(q)

\* C7: for every nonzero step q that jog() passes to send_midi_jog_cc, the
\* control changes sent on JOG_CC each carry a magnitude in 1..63, all but
\* the last 63, summing to |q| in ceil(|q|/63) messages, and each the sign
\* bit of q.
C7_ClampSplit ==
    [][\A v \in JogDeltas :
          jog(v) /\ jlog'.emitted # jlog.emitted =>
              ClampSplit(jlog'.emitted - jlog.emitted, sent')]_vars

\* C7's case: the step 130 sent as 63, 63, 4, or -130 with the sign bit
C7_Witness ==
    /\ Len(sent) = 3
    /\ sent[1].type = "control_change"
    /\ Magnitude(sent[1].value) = 63
    /\ Magnitude(sent[2].value) = 63
    /\ Magnitude(sent[3].value) = 4
    /\ SignBit(sent[1].value) = 1

\* C8: the step that handles a press of STOP_PLAY sends exactly one note,
\* STOP if play_state is true at that moment and PLAY if it is false, and
\* no other step sends STOP or PLAY.
C8_StopPlayToggle ==
    [][/\ ("STOP_PLAY" \in poll.todo /\ "STOP_PLAY" \notin poll'.todo) =>
             sent' = <<[type |-> "note_on",
                        note |-> IF play_state THEN MCU_STOP ELSE MCU_PLAY,
                        velocity |-> 127]>>
       /\ (\E j \in DOMAIN sent' :
               sent'[j].type = "note_on" /\ sent'[j].note \in {MCU_STOP, MCU_PLAY}) =>
             ("STOP_PLAY" \in poll.todo /\ "STOP_PLAY" \notin poll'.todo)]_vars

\* C8's case: the receive thread has set play_state and a press of
\* STOP_PLAY has sent STOP
C8_Witness ==
    /\ play_state
    /\ "STOP_PLAY" \in poll.pressed
    /\ sent = <<[type |-> "note_on", note |-> MCU_STOP, velocity |-> 127]>>

\* a note of zoom_handle_keys: ZOOM or a direction
IsZoomHandlerNote(m) ==
    m.type = "note_on" /\ m.note \in {MCU_ZOOM, MCU_RIGHT, MCU_LEFT, MCU_DOWN, MCU_UP}

IsDirectionalNote(m) ==
    m.type = "note_on" /\ m.note \in {MCU_RIGHT, MCU_LEFT, MCU_DOWN, MCU_UP}

\* C9: a firing of the timer that finds no zoom key held (its zoom_pressed
\* stays False) sends no ZOOM and no directional note and starts no timer.
C9_SelfTermination ==
    [][\A t \in ThreadStates :
          TimerZoom(t) /\ t.pc # "any" /\ ~t.zp =>
              /\ \A j \in DOMAIN sent' : ~IsZoomHandlerNote(sent'[j])
              /\ timers'[Pending] <= timers[Pending]]_vars

\* a step of a thread that is running: a started timer fires, a thread
\* that runs zoom_repeat goes on, a key() call that has begun goes on
Running ==
    \/ zoom_repeat
    \/ \E t \in ThreadStates : TimerZoom(t)
    \/ \E k \in SpeedEditorKey : key_pressed(k)
    \/ PollZoom
    \/ KeyReturn

\* the threads that can run do not all stop; when the device reports the
\* next snapshot and when the DAW answers is left open
Fairness == WF_vars(Running)

SpecZoomFair == SpecZoom /\ Fairness

\* no timer is outstanding and no thread runs zoom_repeat
Quiet == timers = NoTimers

\* C9, its consequence: once all zoom keys are released and no key event
\* follows, eventually zoom_timer_on is false, no timer is outstanding and
\* no directional note is sent any more.
C9_EventuallyQuiet ==
    <>[](~any_zoom_key(keys) /\ poll.pc = "idle") =>
        <>[](/\ ~zoom_timer_on
             /\ Quiet
             /\ \A j \in DOMAIN sent : ~IsDirectionalNote(sent[j]))

\* a timer is outstanding, or a thread is on its way to start one: a timer
\* thread before its any() test, a thread whose zoom_pressed is True, or
\* the polling thread with a zoom key's key_pressed still to run
RearmComing ==
    \/ Outstanding > 0
    \/ \E t \in ThreadStates :
          /\ timers[t] > 0
          /\ t.pc = "any" \/ t.pc = "arm" \/ (t.pc \in {"dir", "chk"} /\ t.zp)
    \/ poll.pc = "loop" /\ any_zoom_key(poll.todo)
    \/ poll.pc = "zoom" /\ (poll.z.pc = "any" \/ poll.z.zp)

\* C10: while a zoom key is held a timer is outstanding or about to be
\* started, in every interleaving of key() with zoom_repeat; and (the
\* timer threads being scheduled) a zoom key that stays held has its
\* directional note sent again and again.
C10_ContinuedRepeats ==
    /\ [](any_zoom_key(keys) => RearmComing)
    /\ \A i \in DOMAIN ZOOM_KEYS :
          <>[](ZOOM_KEYS[i] \in keys) =>
              []<>(\E j \in DOMAIN sent : sent[j] = send_midi_note(ZoomNote[i])[1])

\* C10's case: with a zoom key held and key() not running, a timer thread
\* has sent its notes and is about to start the next timer
C10_Witness ==
    /\ any_zoom_key(keys)
    /\ poll.pc = "idle"
    /\ timers[[pc |-> "arm", i |-> 0, zp |-> TRUE]] > 0

\* a timer thread is between the any() test of zoom_handle_keys and its
\* last key test, with zoom_pressed True: its burst of notes has begun and
\* is not over
TimerInBurst ==
    \E t \in ThreadStates : timers[t] > 0 /\ t.pc = "dir" /\ t.zp

\* C11: the notes of a timer-driven zoom_handle_keys call are not
\* interleaved with the notes of a key()-driven one: the polling thread
\* sends the notes of its zoom_handle_keys call only when no timer thread
\* is in the middle of its own burst.
C11_BurstsSerialized ==
    [][PollZoom /\ poll.z.pc = "any" /\ sent' # <<>> => ~TimerInBurst]_vars

\* the three mirrored flags, by the note that reports them
MirroredFlags ==
    [n \in {MCU_PLAY, MCU_ZOOM, MCU_SCRUB} |->
        CASE n = MCU_PLAY -> play_state
          [] n = MCU_ZOOM -> zoom_mode
          [] n = MCU_SCRUB -> scrub_mode]

\* C12: receive_thread is a pure mirror: a note_on of PLAY, ZOOM or SCRUB
\* sets the one flag of that note to (velocity > 0) and leaves the other two
\* as they were; any other message changes no flag; and no turn of
\* receive_thread sends a message or changes keys, leds, jog_mode,
\* jog_unsent, zoom_timer_on or a device register.
C12_PureMirror ==
    [][\A msg \in Messages : receive_thread(msg) =>
          /\ \A n \in DOMAIN MirroredFlags :
                MirroredFlags'[n] =
                    IF msg.type = "note_on" /\ msg.note = n
                    THEN msg.velocity > 0
                    ELSE MirroredFlags[n]
          /\ sent' = <<>>
          /\ UNCHANGED <<keys, leds, jog_mode, jog_unsent, zoom_timer_on, dev,
                         timers>>]_vars

\* C12's case: during a key() call that has sent a note, receive_thread
\* has set two of the flags and cleared or left the third
C12_Witness ==
    /\ play_state
    /\ scrub_mode
    /\ ~zoom_mode
    /\ poll.pc = "ret"
    /\ keys # {}

\* no key() call has been made since the handler was constructed
Constructed == nkeys = 0

\* C13 as stated: on construction the LED mask is zero and has been pushed
\* to the device, and the active jog mode is the one of the SCRL key.
C13_InitialScroll ==
    Constructed =>
        /\ leds = 0
        /\ dev.leds = 0
        /\ jog_mode = "SCRL"
        /\ dev.jog_led = JOG["SCRL"][1]

\* C13 amended: on construction, and until the first key() call, the LED
\* mask is zero and has been pushed to the device, and the active jog mode
\* is the one of the JOG key, with its jog LED and jog mode in the device.
C13_InitialJog ==
    Constructed =>
        /\ leds = 0
        /\ dev.leds = 0
        /\ jog_mode = "JOG"
        /\ dev.jog_led = JOG["JOG"][1]
        /\ dev.jog_mode = JOG["JOG"][2]

\* C13's case: the wheel was turned before any key() call, and the jog
\* mode of the constructor (factor 15) has decided what was sent
C13_Witness ==
    /\ Constructed
    /\ jlog.n > 0
    /\ jlog.fed = 20
    /\ jlog.emitted = 1
    /\ jog_unsent = 5

\* the step that begins a key() call: it computes the edge sets, stores
\* the held keys and calls key_released for each released key
KeyCallStep == poll.pc = "idle" /\ poll'.pc # "idle"

\* the mask m with the LED bit of key k flipped, if k has an LED
Toggled(m, k) ==
    IF k \in DOMAIN SpeedEditorLed
    THEN IF (m \div SpeedEditorLed[k]) % 2 = 1
         THEN m - SpeedEditorLed[k]
         ELSE m + SpeedEditorLed[k]
    ELSE m

\* C14 as stated: key() handles a released key by selecting its jog mode
\* and jog LED if it is a jog-mode key, toggling its LED bit and committing
\* the mask (here for the calls that release exactly one key).
C14_ReleaseEdge ==
    [][\A k \in SpeedEditorKey :
          KeyCallStep /\ keys \ keys' = {k} =>
              /\ leds' = Toggled(leds, k)
              /\ dev'.leds = leds'
              /\ k \in DOMAIN JOG =>
                    jog_mode' = k /\ dev'.jog_led = JOG[k][1]]_vars

\* C14 amended: jog-mode selection and LED toggling happen on the press
\* edge: key_pressed(k) selects k's jog mode, jog LED and device jog mode
\* if k is a jog-mode key, toggles k's LED bit if it has one and commits
\* the mask; the released keys change nothing: the step of key() that
\* handles them leaves the mask, the device and the jog mode as they were
\* and sends nothing.
C14_PressEdge ==
    [][/\ KeyCallStep => UNCHANGED <<leds, dev, jog_mode>> /\ sent' = <<>>
       /\ \A k \in SpeedEditorKey :
             key_pressed(k) =>
                 /\ leds' = Toggled(leds, k)
                 /\ dev'.leds = leds'
                 /\ IF k \in DOMAIN JOG
                    THEN /\ jog_mode' = k
                         /\ dev'.jog_led = JOG[k][1]
                         /\ dev'.jog_mode = JOG[k][2]
                    ELSE /\ jog_mode' = jog_mode
                         /\ dev'.jog_led = dev.jog_led
                         /\ dev'.jog_mode = dev.jog_mode]_vars

\* C14's case: a key() call has released the key with an LED and a
\* jog-mode key other than the active one; the LED is still lit
C14_Witness ==
    /\ poll.pc = "ret"
    /\ "CAM1" \in poll.released
    /\ "CAM1" \notin keys
    /\ leds = SpeedEditorLed["CAM1"]
    /\ dev.leds = leds
    /\ \E k \in DOMAIN JOG : k \in poll.released /\ jog_mode # k

RECURSIVE MaskOf(_)
\* the mask with the LED bit of each key of S whose LED was toggled an odd
\* number of times
MaskOf(S) ==
    IF S = {} THEN 0
    ELSE LET k == CHOOSE x \in S : TRUE
         IN  led_toggles[k] * SpeedEditorLed[k] + MaskOf(S \ {k})

\* C15: after any sequence of key() snapshots the bit of each key with an
\* LED is set in the mask iff that key's LED was toggled an odd number of
\* times (two toggles of the same key give the mask back), no other bit is
\* set (the toggle of a key with no LED changes nothing), and the device
\* has the mask.
C15_LedParity ==
    /\ leds = MaskOf(DOMAIN SpeedEditorLed)
    /\ dev.leds = leds

\* C15's case: CAM1 was pressed twice and CAM2 once, with the press of a
\* key with no LED in the same call; the mask has the bit of CAM2 alone
C15_Witness ==
    /\ nkeys = 3
    /\ poll.pc = "ret"
    /\ poll.press_calls["CAM1"] = 1
    /\ poll.press_calls["STOP_PLAY"] = 1
    /\ led_toggles["CAM1"] = 0
    /\ led_toggles["CAM2"] = 1
    /\ leds = SpeedEditorLed["CAM2"]

\* the SCRUB notes among the messages msgs
ScrubNotes(msgs) ==
    {j \in DOMAIN msgs : msgs[j].type = "note_on" /\ msgs[j].note = MCU_SCRUB}

\* C16: when a jog-mode key K is selected, exactly one SCRUB note is sent
\* if scrub_mode disagrees with (K = SHTL) at that moment and none
\* otherwise, and the selection does not write scrub_mode.
C16_ScrubCorrection ==
    [][\A k \in DOMAIN JOG :
          key_pressed(k) =>
              /\ Cardinality(ScrubNotes(sent')) =
                    (IF scrub_mode # (k = "SHTL") THEN 1 ELSE 0)
              /\ scrub_mode' = scrub_mode]_vars

\* C16's case: with scrub_mode set by the DAW, the press of SCRL has sent
\* the SCRUB note that switches scrub off
C16_Witness ==
    /\ scrub_mode
    /\ jog_mode = "SCRL"
    /\ poll.pc = "ret"
    /\ poll.pressed = {"SCRL"}
    /\ ScrubNotes(sent) # {}

\* the directional notes among the messages msgs, in order
DirNotes(msgs) == SelectSeq(msgs, IsDirectionalNote)

\* the note of each zoom key
DirectionOf(k) ==
    CASE k = "IN" -> MCU_RIGHT
      [] k = "OUT" -> MCU_LEFT
      [] k = "TRIM_IN" -> MCU_DOWN
      [] k = "TRIM_OUT" -> MCU_UP

\* one note_on of DirectionOf(k) if k is in held, nothing otherwise
NoteIfHeld(k, held) ==
    IF k \in held
    THEN <<[type |-> "note_on", note |-> DirectionOf(k), velocity |-> 127]>>
    ELSE <<>>

\* C17: a zoom_handle_keys call sends one directional note for each zoom
\* key that is in the held set when the call tests it, and none for a key
\* that is not, with IN -> RIGHT, OUT -> LEFT, TRIM_IN -> DOWN,
\* TRIM_OUT -> UP.  A call from a press edge sends the notes of the whole
\* snapshot passed to key(): of the keys pressed in it and of those still
\* held, not of those released in it.  A call from a timer tests each zoom
\* key once, against self.keys as it is at that test.
C17_DirectionPerHeldKey ==
    [][/\ PollZoom /\ poll.z.pc = "any" =>
             DirNotes(sent') =
                 NoteIfHeld("IN", poll.arg) \o NoteIfHeld("OUT", poll.arg)
                    \o NoteIfHeld("TRIM_IN", poll.arg)
                    \o NoteIfHeld("TRIM_OUT", poll.arg)
       /\ PollZoom /\ poll.z.pc # "any" => DirNotes(sent') = <<>>
       /\ \A t \in ThreadStates :
             TimerZoom(t) =>
                 DirNotes(sent') =
                     (IF t.pc = "dir"
                      THEN NoteIfHeld(<<"IN", "OUT", "TRIM_IN", "TRIM_OUT">>[t.i], keys)
                      ELSE <<>>)]_vars

\* C17's case: a snapshot that releases IN and TRIM_OUT and presses OUT and
\* TRIM_IN; the call for one of the pressed keys has sent LEFT and DOWN
C17_Witness ==
    /\ poll.pc = "zoom"
    /\ poll.z.pc = "chk"
    /\ poll.released = {"IN", "TRIM_OUT"}
    /\ poll.pressed = {"OUT", "TRIM_IN"}
    /\ DirNotes(sent) = send_midi_note(MCU_LEFT) \o send_midi_note(MCU_DOWN)

\* C18: in every state jog_mode is one of SHTL, JOG, SCRL and the device
\* shows its jog LED; it is the jog-mode key selected last: key_pressed of
\* a jog-mode key makes that key the mode, and no other step changes the
\* mode; key_pressed of any other key keeps the mode, sends no SCRUB note
\* and writes neither the jog LED nor the jog mode of the device.
C18_OneJogMode ==
    /\ [](jog_mode \in {"SHTL", "JOG", "SCRL"} /\ dev.jog_led = JOG[jog_mode][1])
    /\ [][/\ \A k \in SpeedEditorKey :
                key_pressed(k) =>
                    IF k \in {"SHTL", "JOG", "SCRL"}
                    THEN jog_mode' = k
                    ELSE /\ jog_mode' = jog_mode
                         /\ ScrubNotes(sent') = {}
                         /\ dev'.jog_led = dev.jog_led
                         /\ dev'.jog_mode = dev.jog_mode
          /\ (\A k \in SpeedEditorKey : ~key_pressed(k)) => jog_mode' = jog_mode]_vars

\* C18's case: SHTL was selected and released, and a later call has pressed
\* a key that is no jog-mode key, with scrub_mode such that a selection of
\* JOG would have sent SCRUB; the mode is still SHTL
C18_Witness ==
    /\ jog_mode = "SHTL"
    /\ "SHTL" \notin keys
    /\ scrub_mode
    /\ poll.pc = "ret"
    /\ poll.pressed = {"STOP_PLAY"}

\* every note sent has been processed by the DAW, all its feedback has been
\* delivered to receive_thread, and no key_pressed call is still to run
ScrubSettled == daw.notes = <<>> /\ daw.feedback = <<>> /\ poll.todo = {}

\* C19: with a DAW that flips its scrub state on every SCRUB note and
\* reports it back, whenever all notes have been processed and all feedback
\* has been delivered, the DAW's scrub state and the mirrored scrub_mode
\* are true iff the active jog mode is SHTL.
C19_ScrubConverges ==
    ScrubSettled => /\ daw.scrub = (jog_mode = "SHTL")
                    /\ scrub_mode = daw.scrub

\* C20: the accumulator is never negative between calls: after every
\* jog() call, for deltas of either sign, 0 <= jog_unsent < the speed factor
\* of the active mode; and a call whose quotient is zero (the accumulator
\* after the addition is in 0 .. factor - 1) sends no control change and
\* leaves the accumulator at its value after the addition.
C20_NeverNegative ==
    /\ [](jog_unsent >= 0)
    /\ [][\A v \in JogDeltas :
             jog(v) =>
                 LET added == jog_unsent + v \div 360
                     factor == JOG_SPEED_FACTOR[jog_mode]
                 IN  /\ 0 <= jog_unsent'
                     /\ jog_unsent' < factor
                     /\ (0 <= added /\ added < factor) =>
                           sent' = <<>> /\ jog_unsent' = added]_vars

\* C20's case: one notch backwards in SHTL mode: the step -1 was sent and
\* the accumulator is 19, not -1
C20_Witness ==
    /\ jog_mode = "SHTL"
    /\ jlog.n = 1
    /\ jlog.base = 0
    /\ jlog.fed = -1
    /\ jlog.emitted = -1
    /\ jog_unsent = 19

====
